---- MODULE Spec2Model ----
(***************************************************************************)
(* Two components of the dagster repository.                               *)
(*                                                                         *)
(*   SchedulesRoot (Dagit console): the render callback that turns one     *)
(*   result of SCHEDULES_ROOT_QUERY into the schedules section and the     *)
(*   unloadable-schedules section of the page.                             *)
(*                                                                         *)
(*   Link (docs site): the component that rewrites an href for the         *)
(*   documentation version it is rendered under.                           *)
(*                                                                         *)
(* A string is modelled as a sequence of chunks: the chunk "/" is the      *)
(* path separator, every other chunk is a piece of text without a slash.   *)
(* The empty sequence is the empty string.                                 *)
(***************************************************************************)
EXTENDS Naturals, Sequences, FiniteSets

\* ------------------------------------------------------------------ bounds

\* Longest schedule list a Repository carries in the model.
MaxSchedules == 2
\* Longest results list a JobStates carries in the model.
MaxJobStates == 1
\* Most path segments in an href handed to Link.
MaxSegments == 2

\* ----------------------------------------------------------------- helpers

RECURSIVE SeqsUpTo(_, _)
\* All sequences over S of length at most n.
SeqsUpTo(S, n) ==
  IF n = 0 THEN {<<>>}
  ELSE LET shorter == SeqsUpTo(S, n - 1)
       IN  shorter \cup {Append(s, x) : s \in {t \in shorter : Len(t) = n - 1}, x \in S}

\* ============================================================ SchedulesRoot

ScheduleNames == {"daily", "hourly"}
JobStateNames == {"orphan"}

\* The variants of the three fields of SchedulesRootQuery.
RepositoryOrErrors ==
  {[__typename |-> "PythonError", message |-> "repository failed to load"]}
    \cup {[__typename |-> "RepositoryNotFoundError"]}
    \cup {[__typename |-> "Repository", schedules |-> s] :
             s \in SeqsUpTo(ScheduleNames, MaxSchedules)}

SchedulerOrErrors ==
  {[__typename |-> "Scheduler"],
   [__typename |-> "SchedulerNotDefinedError"],
   [__typename |-> "PythonError"]}

UnloadableJobStatesOrErrors ==
  {[__typename |-> "PythonError", message |-> "job states failed to load"]}
    \cup {[__typename |-> "JobStates", results |-> r] :
             r \in SeqsUpTo(JobStateNames, MaxJobStates)}

QueryResults ==
  {[repositoryOrError |-> r, scheduler |-> s, unloadableJobStatesOrError |-> u] :
      r \in RepositoryOrErrors, s \in SchedulerOrErrors, u \in UnloadableJobStatesOrErrors}

\* The values a section variable of the render callback can hold.
Null == [element |-> "null"]
False == [element |-> "false"]
PythonErrorInfo(error) == [element |-> "PythonErrorInfo", error |-> error]
NonIdealState(title) == [element |-> "NonIdealState", title |-> title]
SchedulesGroup(scheduler, schedules) ==
  [element |-> "Group", schedulerOrError |-> scheduler, schedules |-> schedules]
UnloadableJobs(jobStates) == [element |-> "UnloadableJobs", jobStates |-> jobStates]

RECURSIVE Reverse(_)
Reverse(s) == IF s = <<>> THEN <<>> ELSE Append(Reverse(Tail(s)), Head(s))

\* ------------------------------------------------------------------- state

VARIABLES
  app,                          \* which application this behaviour is a run of
  queryResult,                  \* the result last handed to the render callback
  schedulesSection,             \* the callback's schedulesSection after that pass
  unloadableSchedulesSection,   \* the callback's unloadableSchedulesSection
  firstRender,                  \* history: the first render pass of the run
  polledOther,                  \* history: a different result came after it
  linkProps,                    \* props of the last rendered Link
  currentVersion,               \* useVersion().version
  defaultVersion,               \* useVersion().defaultVersion
  versionedHref,                \* href handed to NextLink by that Link
  firstLink                     \* history: the first Link rendered in the run

vars ==
  <<app, queryResult, schedulesSection, unloadableSchedulesSection, firstRender,
    polledOther, linkProps, currentVersion, defaultVersion, versionedHref, firstLink>>

\* Loading has not handed a result to the callback yet.
NoData == [loading |-> TRUE]
\* Nothing recorded yet in a history variable.
Nothing == [recorded |-> FALSE]

\* --------------------------------------------------- the render callback

\* Mutant of RepositorySections: the emptiness test is inverted.
RepositorySectionsInvertedEmpty(result) ==
  LET schedules == result.repositoryOrError.schedules
      results == result.unloadableJobStatesOrError.results
  IN  [schedulesSection |->
         IF Len(schedules) # 0
           THEN NonIdealState("No Schedules Found")
           ELSE IF Len(schedules) > 0
                  THEN SchedulesGroup(result.scheduler, result.repositoryOrError.schedules)
                  ELSE False,
       unloadableSchedulesSection |->
         IF Len(results) > 0 THEN UnloadableJobs(results) ELSE False]

\* Mutant of RepositorySections: the table is handed the schedules reversed.
RepositorySectionsReversed(result) ==
  LET schedules == result.repositoryOrError.schedules
      results == result.unloadableJobStatesOrError.results
  IN  [schedulesSection |->
         IF Len(schedules) = 0
           THEN NonIdealState("No Schedules Found")
           ELSE IF Len(schedules) > 0
                  THEN SchedulesGroup(result.scheduler, Reverse(schedules))
                  ELSE False,
       unloadableSchedulesSection |->
         IF Len(results) > 0 THEN UnloadableJobs(results) ELSE False]

\* The final else branch of the callback: repositoryOrError is a Repository
\* and unloadableJobStatesOrError is a JobStates.  `a && b` is b when a is
\* truthy and false otherwise.
RepositorySections(result) ==
  LET schedules == result.repositoryOrError.schedules
      results == result.unloadableJobStatesOrError.results
  IN  [schedulesSection |->
         IF Len(schedules) = 0
           THEN NonIdealState("No Schedules Found")
           ELSE IF Len(schedules) > 0
                  THEN SchedulesGroup(result.scheduler, result.repositoryOrError.schedules)
                  ELSE False,
       unloadableSchedulesSection |->
         IF Len(results) > 0 THEN UnloadableJobs(results) ELSE False]

\* Mutant of SchedulesRootRender: the unloadable-job-states error is tested
\* before the repository error.
SchedulesRootRenderUnloadableFirst(result) ==
  LET repositoryOrError == result.repositoryOrError
      unloadableJobStatesOrError == result.unloadableJobStatesOrError
  IN  IF unloadableJobStatesOrError.__typename = "PythonError"
        THEN [schedulesSection |-> PythonErrorInfo(unloadableJobStatesOrError),
              unloadableSchedulesSection |-> Null]
      ELSE IF repositoryOrError.__typename = "PythonError"
        THEN [schedulesSection |-> PythonErrorInfo(repositoryOrError),
              unloadableSchedulesSection |-> Null]
      ELSE IF repositoryOrError.__typename = "RepositoryNotFoundError"
        THEN [schedulesSection |-> NonIdealState("Repository not found"),
              unloadableSchedulesSection |-> Null]
      ELSE RepositorySections(result)

\* Mutant of SchedulesRootRender: repository-not-found is tested before the
\* unloadable-job-states error.
SchedulesRootRenderNotFoundFirst(result) ==
  LET repositoryOrError == result.repositoryOrError
      unloadableJobStatesOrError == result.unloadableJobStatesOrError
  IN  IF repositoryOrError.__typename = "PythonError"
        THEN [schedulesSection |-> PythonErrorInfo(repositoryOrError),
              unloadableSchedulesSection |-> Null]
      ELSE IF repositoryOrError.__typename = "RepositoryNotFoundError"
        THEN [schedulesSection |-> NonIdealState("Repository not found"),
              unloadableSchedulesSection |-> Null]
      ELSE IF unloadableJobStatesOrError.__typename = "PythonError"
        THEN [schedulesSection |-> PythonErrorInfo(unloadableJobStatesOrError),
              unloadableSchedulesSection |-> Null]
      ELSE RepositorySections(result)

\* Mutant of SchedulesRootRender: the two section variables are declared
\* outside the callback, so a pass that does not assign one of them keeps
\* what the previous pass left in it.
SchedulesRootRenderStale(result) ==
  LET repositoryOrError == result.repositoryOrError
      unloadableJobStatesOrError == result.unloadableJobStatesOrError
  IN  IF repositoryOrError.__typename = "PythonError"
        THEN [schedulesSection |-> PythonErrorInfo(repositoryOrError),
              unloadableSchedulesSection |-> unloadableSchedulesSection]
      ELSE IF unloadableJobStatesOrError.__typename = "PythonError"
        THEN [schedulesSection |-> PythonErrorInfo(unloadableJobStatesOrError),
              unloadableSchedulesSection |-> unloadableSchedulesSection]
      ELSE IF repositoryOrError.__typename = "RepositoryNotFoundError"
        THEN [schedulesSection |-> NonIdealState("Repository not found"),
              unloadableSchedulesSection |-> unloadableSchedulesSection]
      ELSE RepositorySections(result)

\* One pass of the callback given to Loading: both section variables start
\* as null, the if-chain assigns them, and the pair is what the returned
\* Group shows under SchedulerInfo.
SchedulesRootRender(result) ==
  LET repositoryOrError == result.repositoryOrError
      unloadableJobStatesOrError == result.unloadableJobStatesOrError
  IN  IF repositoryOrError.__typename = "PythonError"
        THEN [schedulesSection |-> PythonErrorInfo(repositoryOrError),
              unloadableSchedulesSection |-> Null]
      ELSE IF unloadableJobStatesOrError.__typename = "PythonError"
        THEN [schedulesSection |-> PythonErrorInfo(unloadableJobStatesOrError),
              unloadableSchedulesSection |-> Null]
      ELSE IF repositoryOrError.__typename = "RepositoryNotFoundError"
        THEN [schedulesSection |-> NonIdealState("Repository not found"),
              unloadableSchedulesSection |-> Null]
      ELSE RepositorySections(result)

\* ===================================================================== Link

\* Documentation versions the site knows, and the text of path segments.
Versions == {"0.9", "1.1", "1.2"}
SegmentNames == {"1.1", "guides"}
VersionStrings == {<<v>> : v \in Versions}

RECURSIVE Split(_)
\* The segments of a string between its "/" separators (String.split("/")).
Split(p) ==
  IF p = <<>> THEN << <<>> >>
  ELSE IF Head(p) = "/" THEN << <<>> >> \o Split(Tail(p))
  ELSE LET rest == Split(Tail(p))
       IN  << <<Head(p)>> \o Head(rest) >> \o Tail(rest)

RECURSIVE JoinSegments(_)
\* Segments put together with one "/" between neighbours.
JoinSegments(segs) ==
  IF segs = <<>> THEN <<>>
  ELSE IF Len(segs) = 1 THEN Head(segs)
  ELSE Head(segs) \o <<"/">> \o JoinSegments(Tail(segs))

RECURSIVE NormalizeString(_, _, _)
\* path's normalizeString: drops empty and "." segments and resolves "..".
\* res holds the segments kept so far.
NormalizeString(segs, res, allowAboveRoot) ==
  IF segs = <<>> THEN res
  ELSE LET seg == Head(segs)
           kept ==
             IF seg = <<>> \/ seg = <<".">> THEN res
             ELSE IF seg = <<"..">>
               THEN IF res # <<>> /\ res[Len(res)] # <<"..">>
                      THEN SubSeq(res, 1, Len(res) - 1)
                    ELSE IF allowAboveRoot THEN Append(res, seg)
                    ELSE res
             ELSE Append(res, seg)
       IN  NormalizeString(Tail(segs), kept, allowAboveRoot)

\* path.normalize (POSIX).
PathNormalize(p) ==
  IF p = <<>> THEN <<".">>
  ELSE LET isAbsolute == Head(p) = "/"
           trailingSeparator == p[Len(p)] = "/"
           body == JoinSegments(NormalizeString(Split(p), <<>>, ~isAbsolute))
           dotted == IF body = <<>> /\ ~isAbsolute THEN <<".">> ELSE body
           closed == IF dotted # <<>> /\ trailingSeparator
                       THEN dotted \o <<"/">> ELSE dotted
       IN  IF isAbsolute THEN <<"/">> \o closed ELSE closed

\* Mutant of PathJoin: the arguments are glued with "/" and not normalized.
PathJoinUnnormalized(args) ==
  JoinSegments(SelectSeq(args, LAMBDA a : a # <<>>))

\* path.join: the non-empty arguments joined with "/", then normalized.
PathJoin(args) ==
  LET joined == JoinSegments(SelectSeq(args, LAMBDA a : a # <<>>))
  IN  IF joined = <<>> THEN <<".">> ELSE PathNormalize(joined)

RECURSIVE NormalizeVersionPath(_)
\* normalizeVersionPath(href).asPath: href without the version segments it
\* starts with.
NormalizeVersionPath(p) ==
  IF Len(p) >= 1 /\ p[1] \in Versions /\ (Len(p) = 1 \/ p[2] = "/")
    THEN NormalizeVersionPath(SubSeq(p, 3, Len(p)))
  ELSE IF Len(p) >= 2 /\ p[1] = "/" /\ p[2] \in Versions /\ (Len(p) = 2 \/ p[3] = "/")
    THEN NormalizeVersionPath(<<"/">> \o SubSeq(p, 4, Len(p)))
  ELSE p

\* `if (version)`: the prop was passed and is not the empty string.
HasVersion(props) == "version" \in DOMAIN props /\ props.version # <<>>

\* The href Link hands to NextLink.
LinkHref(props, current, default) ==
  LET href == props.href
      asPath == NormalizeVersionPath(href)
  IN  IF HasVersion(props)
        THEN IF props.version = default
               THEN PathJoin(<< <<"/">>, asPath >>)
               ELSE PathJoin(<< <<"/">>, props.version, asPath >>)
      ELSE IF current = default
        THEN PathJoin(<< <<"/">>, href >>)
      ELSE PathJoin(<< <<"/">>, current, href >>)

\* The hrefs handed to Link in the model: up to MaxSegments segments, with or
\* without a leading slash.  An href that names a version is written
\* anchored ("/version/abcd"), as in the usage comment of the component.
RawPaths ==
  {p \in {lead \o JoinSegments([i \in DOMAIN segs |-> <<segs[i]>>]) :
             lead \in {<<>>, <<"/">>}, segs \in SeqsUpTo(SegmentNames, MaxSegments)} :
      p = <<>> \/ p[1] \notin Versions}

\* The props handed to Link in the model.

LinkPropsSet ==
  {[href |-> h] : h \in RawPaths}
    \cup {[href |-> h, version |-> v] : h \in RawPaths, v \in VersionStrings}

\* ----------------------------------------------------------------- actions

\* No page has been rendered and no version context applies.
NoVersion == <<>>
NoProps == [href |-> <<>>, rendered |-> FALSE]

Init ==
  /\ app \in {"dagit", "docs"}
  /\ queryResult = NoData
  /\ schedulesSection = Null
  /\ unloadableSchedulesSection = Null
  /\ firstRender = Nothing
  /\ polledOther = FALSE
  /\ linkProps = NoProps
  /\ IF app = "docs"
       THEN currentVersion \in VersionStrings /\ defaultVersion \in VersionStrings
       ELSE currentVersion = NoVersion /\ defaultVersion = NoVersion
  /\ versionedHref = <<>>
  /\ firstLink = Nothing

\* Loading hands a query result (fresh or polled again) to the callback.
RenderSchedulesRoot(result) ==
  /\ app = "dagit"
  /\ LET sections == SchedulesRootRender(result)
     IN  /\ queryResult' = result
         /\ schedulesSection' = sections.schedulesSection
         /\ unloadableSchedulesSection' = sections.unloadableSchedulesSection
         /\ firstRender' =
              IF firstRender = Nothing
                THEN [result |-> result,
                      schedulesSection |-> sections.schedulesSection,
                      unloadableSchedulesSection |-> sections.unloadableSchedulesSection]
                ELSE firstRender
         /\ polledOther' =
              (polledOther \/ (firstRender # Nothing /\ firstRender.result # result))
  /\ UNCHANGED <<app, linkProps, currentVersion, defaultVersion, versionedHref, firstLink>>

\* A Link is rendered with the given props under the page's version context.
RenderLink(props) ==
  /\ app = "docs"
  /\ LET out == LinkHref(props, currentVersion, defaultVersion)
     IN  /\ linkProps' = props
         /\ versionedHref' = out
         /\ firstLink' =
              IF firstLink = Nothing
                THEN [props |-> props, versionedHref |-> out]
                ELSE firstLink
  /\ UNCHANGED <<app, queryResult, schedulesSection, unloadableSchedulesSection,
                 firstRender, polledOther, currentVersion, defaultVersion>>

Next ==
  \/ \E result \in QueryResults : RenderSchedulesRoot(result)
  \/ \E props \in LinkPropsSet : RenderLink(props)

Spec == Init /\ [][Next]_vars

\* ================================================================== claims

\* The callback has run at least once.
Rendered == queryResult # NoData
RepositoryIs(typename) == queryResult.repositoryOrError.__typename = typename
UnloadableIs(typename) == queryResult.unloadableJobStatesOrError.__typename = typename

\* The five cases of the primary plan, in the order the claims give them.
PlanCondition(i) ==
  CASE i = 1 -> RepositoryIs("PythonError")
    [] i = 2 -> UnloadableIs("PythonError")
    [] i = 3 -> RepositoryIs("RepositoryNotFoundError")
    [] i = 4 -> RepositoryIs("Repository") /\ Len(queryResult.repositoryOrError.schedules) = 0
    [] i = 5 -> RepositoryIs("Repository") /\ Len(queryResult.repositoryOrError.schedules) > 0

PlanOf(i) ==
  CASE i = 1 -> PythonErrorInfo(queryResult.repositoryOrError)
    [] i = 2 -> PythonErrorInfo(queryResult.unloadableJobStatesOrError)
    [] i = 3 -> NonIdealState("Repository not found")
    [] i = 4 -> NonIdealState("No Schedules Found")
    [] i = 5 -> SchedulesGroup(queryResult.scheduler, queryResult.repositoryOrError.schedules)

\* C1: whenever the rendered result's repositoryOrError is a PythonError, the
\* schedules section is the error display of that repository error, whatever
\* scheduler and unloadableJobStatesOrError are.
C1_RepoErrorWins ==
  (Rendered /\ RepositoryIs("PythonError"))
    => schedulesSection = PythonErrorInfo(queryResult.repositoryOrError)

\* Reached: both fields are PythonError and the repository's error is shown.
C1_Witness ==
  /\ Rendered
  /\ RepositoryIs("PythonError")
  /\ UnloadableIs("PythonError")
  /\ schedulesSection = PythonErrorInfo(queryResult.repositoryOrError)
  /\ schedulesSection # PythonErrorInfo(queryResult.unloadableJobStatesOrError)

\* C2: every rendered result matches at least one of the five cases, and the
\* schedules section is a real element: the plan of the first case, in the
\* order repository-error, unloadable-error, repository-not-found,
\* empty-schedules, schedules-table, that matches.
C2_FirstMatchWins ==
  Rendered =>
    /\ \E i \in 1..5 : PlanCondition(i)
    /\ schedulesSection \notin {Null, False}
    /\ \A i \in 1..5 :
         (PlanCondition(i) /\ \A j \in 1..(i - 1) : ~PlanCondition(j))
           => schedulesSection = PlanOf(i)

\* Reached: repository not found together with an unloadable-states error
\* shows the unloadable-states error.
C2_Witness ==
  /\ Rendered
  /\ RepositoryIs("RepositoryNotFoundError")
  /\ UnloadableIs("PythonError")
  /\ schedulesSection = PythonErrorInfo(queryResult.unloadableJobStatesOrError)

\* C3: the unloadable section is an UnloadableJobs element exactly when
\* unloadableJobStatesOrError is a JobStates with a non-empty results list,
\* whichever primary plan was chosen.
C3_UnloadableIndependent ==
  Rendered =>
    ((unloadableSchedulesSection.element = "UnloadableJobs")
       <=> (/\ UnloadableIs("JobStates")
            /\ Len(queryResult.unloadableJobStatesOrError.results) > 0))

\* C4 as stated: a Repository without schedules shows "No Schedules Found"
\* for every variant of scheduler and unloadableJobStatesOrError.
C4_Original ==
  (Rendered /\ PlanCondition(4)) => schedulesSection = PlanOf(4)

\* C4 amended: a Repository without schedules shows "No Schedules Found" for
\* every variant of scheduler, provided unloadableJobStatesOrError is not a
\* PythonError.
C4_NoSchedules ==
  (Rendered /\ PlanCondition(4) /\ ~UnloadableIs("PythonError"))
    => schedulesSection = PlanOf(4)

\* Reached: an empty Repository under a failed scheduler shows NoSchedules.
C4_Witness ==
  /\ Rendered
  /\ PlanCondition(4)
  /\ UnloadableIs("JobStates")
  /\ queryResult.scheduler.__typename = "PythonError"
  /\ schedulesSection = NonIdealState("No Schedules Found")

\* C5 as stated: a Repository with N > 0 schedules shows the table with
\* exactly those schedules in order, for every variant of scheduler and
\* unloadableJobStatesOrError.
C5_Original ==
  (Rendered /\ PlanCondition(5)) => schedulesSection = PlanOf(5)

\* C5 amended: a Repository with N > 0 schedules shows the table with exactly
\* those N schedules in their original order for every variant of scheduler,
\* provided unloadableJobStatesOrError is not a PythonError.
C5_SchedulesTable ==
  (Rendered /\ PlanCondition(5) /\ ~UnloadableIs("PythonError"))
    => /\ schedulesSection.element = "Group"
       /\ schedulesSection.schedules = queryResult.repositoryOrError.schedules
       /\ schedulesSection.schedulerOrError = queryResult.scheduler

\* Reached: two different schedules are shown in the order they came in.
C5_Witness ==
  /\ Rendered
  /\ RepositoryIs("Repository")
  /\ UnloadableIs("JobStates")
  /\ queryResult.repositoryOrError.schedules = <<"hourly", "daily">>
  /\ schedulesSection.element = "Group"
  /\ schedulesSection.schedules = <<"hourly", "daily">>

\* A Link has been rendered.
LinkRendered == linkProps # NoProps
TargetVersion == IF HasVersion(linkProps) THEN linkProps.version ELSE currentVersion
\* The first non-empty segment of a path, or the empty string.
FirstSegment(p) ==
  LET segs == SelectSeq(Split(p), LAMBDA g : g # <<>>)
  IN  IF segs = <<>> THEN <<>> ELSE Head(segs)

\* C6: the target version is the version prop when given and the current
\* version otherwise; the resolved href starts with no version segment when
\* the target is the default version and with exactly the target otherwise.
C6_VersionSegment ==
  LinkRendered =>
    IF TargetVersion = defaultVersion
      THEN FirstSegment(versionedHref) \notin VersionStrings
      ELSE FirstSegment(versionedHref) = TargetVersion

\* C7: after the optional version segment the resolved href is always the
\* normalized href (the version segments it started with stripped), with and
\* without a version prop.
C7_NormalizedTail ==
  LinkRendered =>
    versionedHref =
      IF TargetVersion = defaultVersion
        THEN PathJoin(<< <<"/">>, NormalizeVersionPath(linkProps.href) >>)
        ELSE PathJoin(<< <<"/">>, TargetVersion, NormalizeVersionPath(linkProps.href) >>)

\* C8: a Link whose version prop equals the current version resolves to the
\* same href as the same Link without a version prop.
C8_ExplicitCurrentSameAsOmitted ==
  (/\ LinkRendered
   /\ firstLink # Nothing
   /\ firstLink.props.href = linkProps.href
   /\ \/ (~HasVersion(firstLink.props) /\ HasVersion(linkProps)
            /\ linkProps.version = currentVersion)
      \/ (~HasVersion(linkProps) /\ HasVersion(firstLink.props)
            /\ firstLink.props.version = currentVersion))
    => firstLink.versionedHref = versionedHref

\* C9: the resolved href starts with one slash and never has two slashes in
\* a row.
C9_SingleSlashes ==
  LinkRendered =>
    /\ Len(versionedHref) >= 1
    /\ versionedHref[1] = "/"
    /\ \A i \in 1..(Len(versionedHref) - 1) :
         ~(versionedHref[i] = "/" /\ versionedHref[i + 1] = "/")

\* Reached: an href that itself starts with a slash, joined under a current
\* version that is not the default.
C9_Witness ==
  /\ LinkRendered
  /\ ~HasVersion(linkProps)
  /\ currentVersion # defaultVersion
  /\ linkProps.href = <<"/", "guides">>
  /\ versionedHref = <<"/">> \o currentVersion \o <<"/", "guides">>

\* C10: a render pass of a result that was also the first result of the run
\* shows the same two sections as the first pass did, whatever was rendered
\* in between; and a Link with the same props as the first Link resolves to
\* the same href.
C10_DependsOnInputOnly ==
  /\ (firstRender # Nothing /\ firstRender.result = queryResult)
       => /\ firstRender.schedulesSection = schedulesSection
          /\ firstRender.unloadableSchedulesSection = unloadableSchedulesSection
  /\ (firstLink # Nothing /\ firstLink.props = linkProps)
       => firstLink.versionedHref = versionedHref

\* Reached: the first result comes again after a different result was
\* rendered, and the sections are those of the first pass.
C10_Witness ==
  /\ firstRender # Nothing
  /\ polledOther
  /\ firstRender.result = queryResult
  /\ RepositoryIs("PythonError")
  /\ firstRender.unloadableSchedulesSection = unloadableSchedulesSection
  /\ unloadableSchedulesSection = Null

====
